---- MODULE Spec2Model ----
(***************************************************************************)
(* md2enex: conversion of a directory of Markdown files into one ENEX      *)
(* export (src/md2enex/md2enex.py).                                        *)
(*                                                                         *)
(* Three specifications are given.                                         *)
(*   Spec      write_enex: the loop over the sorted input files, the       *)
(*             output file, the messages and the exit status.              *)
(*   SpecNote  create_note_content on one document: parse, strip_note_el,  *)
(*             add_resources, validate_note_xml.                           *)
(*   SpecLines create_note_content: the loop over the lines of the HTML    *)
(*             text that builds content_text.                              *)
(*                                                                         *)
(* An element of an lxml tree is a record                                  *)
(*   [id, tag, attrib, text, kids, tail]                                   *)
(* id is the element's identity (the Python object): the path of child     *)
(* positions at which the parser created it; an element made later by      *)
(* etree.Element gets a path that starts with 0.  attrib is a set of       *)
(* <<name, value>> pairs, text and tail are sequences of text tokens       *)
(* (concatenation of strings is concatenation of sequences, None and ""    *)
(* are both <<>>), kids is the sequence of child elements.                 *)
(***************************************************************************)
EXTENDS Integers, Sequences, FiniteSets, TLC

\* ------------------------------------------------------------------ bounds
\* Largest number of elements below <en-note> in a generated document.
MaxNodes == 3
\* Largest number of directory entries in a generated input directory.
MaxFiles == 3
\* Latest reading of the system clock, in seconds after the start of the run.
MaxClock == 2
\* Largest number of lines in a generated HTML text.
MaxLines == 3

\* --------------------------------------------------------------- constants
INVALID_TAGS ==
    { "applet", "base", "basefont", "bgsound", "blink", "body", "button", "dir",
      "fieldset", "figcaption", "form", "frame", "frameset", "head", "html",
      "iframe", "ilayer", "input", "isindex", "label", "layer", "legend", "link",
      "marquee", "menu", "meta", "noframes", "noscript", "object", "optgroup",
      "option", "param", "plaintext", "script", "select", "style", "textarea",
      "xml" }

INVALID_ATTRIBUTES ==
    { "id", "class", "controls", "onclick", "ondblclick", "on*", "accesskey",
      "data", "data-cites", "data-emoji", "dynsrc", "tabindex", "aria-hidden" }

\* The tags of the XPath union ".//img | .//video | .//audio | .//embed".
MEDIA_TAGS == { "img", "video", "audio", "embed" }

\* The tags of the XPath union ".//video | .//audio | .//embed".
RENAME_TAGS == { "video", "audio", "embed" }

\* ------------------------------------------------------------ tree helpers
Element(id, tag, attrib, text, kids, tail) ==
    [id |-> id, tag |-> tag, attrib |-> attrib, text |-> text, kids |-> kids,
     tail |-> tail]

\* "name" in el.attrib
HasAttr(el, name) == \E a \in el.attrib : a[1] = name

\* el.attrib[name]
Attr(el, name) == (CHOOSE a \in el.attrib : a[1] = name)[2]

RECURSIVE ConcatAll(_)
ConcatAll(seqs) ==
    IF seqs = <<>> THEN <<>> ELSE Head(seqs) \o ConcatAll(Tail(seqs))

\* The elements of the subtree of el, el first, in document order.
RECURSIVE Elements(_)
Elements(el) ==
    <<el>> \o ConcatAll([i \in 1..Len(el.kids) |-> Elements(el.kids[i])])

\* The descendants of el in document order (what ".//x" ranges over).
Descendants(el) == Tail(Elements(el))

IsPrefix(p, q) == Len(p) <= Len(q) /\ SubSeq(q, 1, Len(p)) = p

IsProperPrefix(p, q) == Len(p) < Len(q) /\ IsPrefix(p, q)

\* The paths (child positions from el down) of the descendants of el, in
\* document order.
RECURSIVE DescendantPaths(_)
DescendantPaths(el) ==
    ConcatAll([i \in 1..Len(el.kids) |->
        LET below == DescendantPaths(el.kids[i])
        IN  <<<<i>>>> \o [j \in 1..Len(below) |-> <<i>> \o below[j]]])

RECURSIVE NodeAt(_, _)
NodeAt(el, p) == IF p = <<>> THEN el ELSE NodeAt(el.kids[Head(p)], Tail(p))

RECURSIVE ReplaceAt(_, _, _)
ReplaceAt(el, p, new) ==
    IF p = <<>> THEN new
    ELSE [el EXCEPT !.kids[Head(p)] = ReplaceAt(@, Tail(p), new)]

\* The serialised form of a tree, as the sequence of its start tags (with the
\* element's identity, tag and attributes), text tokens and end tags.
RECURSIVE Events(_)
Events(el) ==
    <<<<"start", el.id, el.tag, el.attrib>>>> \o el.text
        \o ConcatAll([i \in 1..Len(el.kids) |-> Events(el.kids[i])])
        \o <<<<"end", el.id, el.tag>>>> \o el.tail

\* ------------------------------------------------------------ strip_note_el
\* etree.strip_attributes(tree, *names): on the element and all of its
\* descendants, delete the attributes whose name is one of names.  A name is
\* matched literally ("on*" is the attribute called on*, not a pattern).
RECURSIVE strip_attributes(_, _)
strip_attributes(el, names) ==
    [el EXCEPT !.attrib = { a \in @ : a[1] \notin names },
               !.kids = [i \in 1..Len(@) |-> strip_attributes(@[i], names)]]

\* Append the text s at the current end of the content built so far: to the
\* tail of the last child when there is one, to the parent's text otherwise.
AppendText(text, done, s) ==
    IF done = <<>> THEN [text |-> text \o s, kids |-> done]
    ELSE [text |-> text, kids |-> [done EXCEPT ![Len(done)].tail = @ \o s]]

\* etree.strip_tags(tree, *tags): every descendant whose tag is one of tags is
\* replaced by its children: its text joins the text before it, its children
\* take its place (and are examined in turn), its tail stays where it was.
\* The element the function is called on is never removed.
\* SpliceKids(text, done, todo, tags): done are the children already settled,
\* todo the child nodes still to examine.
RECURSIVE strip_tags(_, _)
RECURSIVE SpliceKids(_, _, _, _)
SpliceKids(text, done, todo, tags) ==
    IF todo = <<>> THEN [text |-> text, kids |-> done]
    ELSE LET c == Head(todo) IN
         IF c.tag \in tags
         THEN IF c.kids = <<>>
              THEN LET a == AppendText(text, done, c.text \o c.tail)
                   IN  SpliceKids(a.text, a.kids, Tail(todo), tags)
              ELSE LET a == AppendText(text, done, c.text)
                       moved == [c.kids EXCEPT ![Len(c.kids)].tail = @ \o c.tail]
                   IN  SpliceKids(a.text, a.kids, moved \o Tail(todo), tags)
         ELSE SpliceKids(text, Append(done, strip_tags(c, tags)), Tail(todo), tags)

\* A variant of strip_tags that removes a disallowed element with its content,
\* as etree.strip_elements(tree, *tags, with_tail=False) does.
RECURSIVE strip_tags_DropsSubtree(_, _)
strip_tags_DropsSubtree(el, tags) ==
    LET kept == SelectSeq(el.kids, LAMBDA c : c.tag \notin tags)
    IN  [el EXCEPT !.kids = [i \in 1..Len(kept) |->
                                strip_tags_DropsSubtree(kept[i], tags)]]

\* A variant of strip_tags that does not examine the children that take the
\* place of a disallowed element: a disallowed element directly inside another
\* one is left in the tree.
RECURSIVE strip_tags_OneLevel(_, _)
RECURSIVE OneLevelKids(_, _, _, _)
OneLevelKids(text, done, todo, tags) ==
    IF todo = <<>> THEN [text |-> text, kids |-> done]
    ELSE LET c == Head(todo) IN
         IF c.tag \in tags
         THEN IF c.kids = <<>>
              THEN LET a == AppendText(text, done, c.text \o c.tail)
                   IN  OneLevelKids(a.text, a.kids, Tail(todo), tags)
              ELSE LET a == AppendText(text, done, c.text)
                       moved == [c.kids EXCEPT ![Len(c.kids)].tail = @ \o c.tail]
                   IN  OneLevelKids(a.text, a.kids \o moved, Tail(todo), tags)
         ELSE OneLevelKids(text, Append(done, strip_tags_OneLevel(c, tags)),
                           Tail(todo), tags)

strip_tags_OneLevel(el, tags) ==
    LET r == OneLevelKids(el.text, <<>>, el.kids, tags)
    IN  [el EXCEPT !.text = r.text, !.kids = r.kids]

strip_tags(el, tags) ==
    LET r == SpliceKids(el.text, <<>>, el.kids, tags)
    IN  [el EXCEPT !.text = r.text, !.kids = r.kids]

strip_note_el(en_note_el) ==
    strip_tags(strip_attributes(en_note_el, INVALID_ATTRIBUTES), INVALID_TAGS)

\* ------------------------------------------------------------- environment
\* The media files on disk below the Markdown file's directory: the result of
\* os.path.exists / open(path, "rb").read() for a resolved path.
Disk(path) ==
    CASE path = "pic 1.png" -> [kind |-> "file", bytes |-> <<1, 2>>]
      [] path = "clip.mp4"  -> [kind |-> "file", bytes |-> <<1, 2>>]
      [] path = "blob"      -> [kind |-> "file", bytes |-> <<3>>]
      [] path = "sub"       -> [kind |-> "dir"]
      [] OTHER              -> [kind |-> "missing"]

\* urllib.parse.unquote: %xx escapes are decoded, anything else is kept.
unquote(s) == IF s = "pic%201.png" THEN "pic 1.png" ELSE s

\* mimetypes.guess_type(path)[0], "none" standing for None.
guess_type(path) ==
    CASE path = "pic 1.png" -> "image/png"
      [] path = "clip.mp4"  -> "video/mp4"
      [] OTHER              -> "none"

\* hashlib.md5(data).hexdigest(): equal digests for equal bytes only.
md5(data) == <<"md5", data>>

\* base64.b64encode(data).decode("utf-8") and its inverse.
b64encode(data) == <<"b64", data>>

b64decode(text) == text[2]

\* ------------------------------------------------------------ add_resources
\* The resource element built for a media tag whose file holds media_data.
Resource(media_tag, media_data, mime_type) ==
    [data |-> b64encode(media_data), encoding |-> "base64", mime |-> mime_type,
     dims |-> (IF HasAttr(media_tag, "width")
                 THEN <<<<"width", Attr(media_tag, "width")>>>> ELSE <<>>)
              \o (IF HasAttr(media_tag, "height")
                    THEN <<<<"height", Attr(media_tag, "height")>>>> ELSE <<>>)]

\* A variant of EnMedia that takes the hash of the first byte of the file
\* instead of the hash of all of its bytes.
EnMedia_HashOfFirstByte(media_tag, media_data, mime_type) ==
    Element(<<0>> \o media_tag.id, "en-media",
            {<<"type", mime_type>>, <<"hash", md5(SubSeq(media_data, 1, 1))>>}
              \cup { a \in media_tag.attrib : a[1] \in {"title", "alt"} },
            <<>>, <<>>, <<>>)

\* The en-media element built for a media tag.
EnMedia(media_tag, media_data, mime_type) ==
    Element(<<0>> \o media_tag.id, "en-media",
            {<<"type", mime_type>>, <<"hash", md5(media_data)>>}
              \cup { a \in media_tag.attrib : a[1] \in {"title", "alt"} },
            <<>>, <<>>, <<>>)

MimeOf(full_path) ==
    LET mime_type == guess_type(full_path)
    IN  IF mime_type = "none" THEN "image/jpeg" ELSE mime_type

\* One pass of the loop over the media tags found by the XPath union.  orig is
\* the tree the XPath ran on, paths the found elements still to visit (document
\* order).  st.tree is the content tree, st.replaced the paths of the elements
\* already taken out of it by parent.replace: an element below one of them is
\* still visited, its parent (not None) is in the removed subtree, so the
\* replacement happens there and the resource is appended all the same.
\* parent.replace(old, new) leaves old's tail with old.
RECURSIVE MediaLoop(_, _, _)
MediaLoop(orig, paths, st) ==
    IF paths = <<>> \/ st.raised /= "none" THEN st
    ELSE LET p == Head(paths)
             media_tag == NodeAt(orig, p)
             full_path == unquote(Attr(media_tag, "src"))
             found == Disk(full_path)
         IN  IF ~HasAttr(media_tag, "src") THEN MediaLoop(orig, Tail(paths), st)
             ELSE IF found.kind = "missing" THEN MediaLoop(orig, Tail(paths), st)
             ELSE IF found.kind = "dir"
                  THEN [st EXCEPT !.raised = "IsADirectoryError"]
             ELSE LET mime_type == MimeOf(full_path)
                      resource == Resource(media_tag, found.bytes, mime_type)
                      en_media == EnMedia(media_tag, found.bytes, mime_type)
                      attached == \A q \in st.replaced : ~IsProperPrefix(q, p)
                  IN  MediaLoop(orig, Tail(paths),
                        [tree |-> IF attached THEN ReplaceAt(st.tree, p, en_media)
                                  ELSE st.tree,
                         resources |-> Append(st.resources, resource),
                         replaced |-> st.replaced \cup {p},
                         raised |-> "none"])

\* The paths of the descendants of el with a tag in tags, in document order.
PathsWithTag(el, tags) ==
    SelectSeq(DescendantPaths(el), LAMBDA p : NodeAt(el, p).tag \in tags)

\* The path in el of the descendant with identity id.
PathOfId(el, id) ==
    LET ps == DescendantPaths(el)
    IN  ps[CHOOSE i \in 1..Len(ps) : NodeAt(el, ps[i]).id = id]

\* A variant of RemoveFigure that moves the children of the figure to the end
\* of its parent (parent.append(child)) instead of the figure's position.
RemoveFigure_AppendsChildren(el, id) ==
    LET p == PathOfId(el, id)
        pp == SubSeq(p, 1, Len(p) - 1)
        k == p[Len(p)]
        parent == NodeAt(el, pp)
        figure == parent.kids[k]
        kids == SubSeq(parent.kids, 1, k - 1)
                  \o SubSeq(parent.kids, k + 1, Len(parent.kids)) \o figure.kids
    IN  ReplaceAt(el, pp, [parent EXCEPT !.kids = kids])

\* for child in figure: parent.insert(parent.index(figure), child);
\* parent.remove(figure).  Every child element moves, with its tail, before the
\* figure, in order; the figure leaves with its own text and tail.
RemoveFigure(el, id) ==
    LET p == PathOfId(el, id)
        pp == SubSeq(p, 1, Len(p) - 1)
        k == p[Len(p)]
        parent == NodeAt(el, pp)
        figure == parent.kids[k]
        kids == SubSeq(parent.kids, 1, k - 1) \o figure.kids
                  \o SubSeq(parent.kids, k + 1, Len(parent.kids))
    IN  ReplaceAt(el, pp, [parent EXCEPT !.kids = kids])

\* The loop over en_note_el.findall(".//figure"), a list made before the loop.
RECURSIVE FigureLoop(_, _)
FigureLoop(el, ids) ==
    IF ids = <<>> THEN el ELSE FigureLoop(RemoveFigure(el, Head(ids)), Tail(ids))

\* A variant of RenameMedia that leaves the tags as they are.
RenameMedia_Skipped(el) == el

\* rename_media_tag.tag = "img" for every video, audio, embed descendant.
RECURSIVE RenameMedia(_)
RenameMedia(el) ==
    [el EXCEPT !.kids = [i \in 1..Len(@) |->
        LET c == RenameMedia(@[i])
        IN  IF c.tag \in RENAME_TAGS THEN [c EXCEPT !.tag = "img"] ELSE c]]

\* add_resources(en_note_el, base_dir): the content tree as the call leaves it,
\* the returned list, and the exception the call ends with ("none": it returns).
add_resources(en_note_el) ==
    LET st == MediaLoop(en_note_el, PathsWithTag(en_note_el, MEDIA_TAGS),
                        [tree |-> en_note_el, resources |-> <<>>, replaced |-> {},
                         raised |-> "none"])
        found == PathsWithTag(st.tree, {"figure"})
        figures == [i \in 1..Len(found) |-> NodeAt(st.tree, found[i]).id]
    IN  IF st.raised /= "none" THEN st
        ELSE [st EXCEPT !.tree = RenameMedia(FigureLoop(st.tree, figures))]

\* --------------------------------------------------------- validate_note_xml
\* The elements the ENML grammar declares, among the tags of the model.
ENML_ELEMENTS == { "en-note", "en-media", "p", "img" }

\* etree.fromstring(note_xml, parser) with dtd_validation: the document is
\* accepted when every element is one the grammar declares.
DtdValid(en_note_el) ==
    LET els == Elements(en_note_el)
    IN  \A i \in 1..Len(els) : els[i].tag \in ENML_ELEMENTS

\* The directory of the module (script_abs_path) and the directories the
\* process can be started in.
ScriptDir == "site-packages/md2enex"

Dirs == { "notes", ScriptDir }

\* os.chdir(path): the working directory after the call.
chdir(cwd, path) == path

\* A variant of validate_note_xml that changes back only after a successful
\* parse (os.chdir(working_directory) as the last statement of the try block,
\* no finally clause).
validate_note_xml_NoFinally(en_note_el, cwd) ==
    LET working_directory == cwd
        inside == chdir(cwd, ScriptDir)
    IN  IF DtdValid(en_note_el)
        THEN [raised |-> "none", cwd |-> chdir(inside, working_directory)]
        ELSE [raised |-> "XMLSyntaxError", cwd |-> inside]

\* validate_note_xml(note_xml) called with the working directory cwd: the
\* exception it ends with ("none" when it returns) and the working directory
\* it leaves.  The directory is changed to the module's before the parse, and
\* the finally clause changes it back on both ways out.
validate_note_xml(en_note_el, cwd) ==
    LET working_directory == cwd
        inside == chdir(cwd, ScriptDir)
    IN  [raised |-> IF DtdValid(en_note_el) THEN "none" ELSE "XMLSyntaxError",
         cwd |-> chdir(inside, working_directory)]

\* ----------------------------------------------------------- the documents
\* The start tags the generated documents are built from.
Labels ==
    { [tag |-> "p", attrib |-> {<<"class", "c">>, <<"title", "t">>}],
      [tag |-> "script", attrib |-> {}],
      [tag |-> "img", attrib |-> {<<"src", "pic%201.png">>, <<"alt", "a">>,
                                  <<"width", "10">>}],
      [tag |-> "video", attrib |-> {<<"src", "clip.mp4">>, <<"controls", "">>}],
      [tag |-> "embed", attrib |-> {<<"src", "blob">>, <<"title", "t">>}],
      [tag |-> "audio", attrib |-> {<<"src", "gone.mp3">>}],
      [tag |-> "img", attrib |-> {<<"alt", "a">>}],
      [tag |-> "img", attrib |-> {<<"src", "sub">>}],
      [tag |-> "figure", attrib |-> {}],
      [tag |-> "section", attrib |-> {}] }

\* The shape of a document of n elements below <en-note>: par[i] is the
\* element (0 for <en-note>) that is the parent of the i-th element in document
\* order; it is the element before i or one of that element's ancestors.
RECURSIVE IsAncestorOrSelf(_, _, _)
IsAncestorOrSelf(par, a, i) ==
    IF i = a THEN TRUE
    ELSE IF i = 0 \/ par[i] >= i THEN FALSE
    ELSE IsAncestorOrSelf(par, a, par[i])

IsShape(par) ==
    \A i \in DOMAIN par : par[i] < i /\ IsAncestorOrSelf(par, par[i], i - 1)

\* The children of element i, in document order.
KidsOf(par, i) == SelectSeq([j \in DOMAIN par |-> j], LAMBDA j : par[j] = i)

\* The tree of element i at path: the start tag lab[i], its own text and tail
\* token, its children below it.
RECURSIVE BuildElement(_, _, _, _)
BuildElement(par, lab, i, path) ==
    LET below == KidsOf(par, i)
    IN  Element(path, lab[i].tag, lab[i].attrib, <<<<"text", path>>>>,
                IF below = <<>> THEN <<>>
                ELSE [k \in 1..Len(below) |->
                         BuildElement(par, lab, below[k], path \o <<k>>)],
                IF i = 0 THEN <<>> ELSE <<<<"tail", path>>>>)

\* The tree etree.XML("<en-note>...</en-note>") returns for a shape and the
\* start tags of its elements.
BuildDocument(par, lab) ==
    BuildElement(par, [i \in 0..Len(par) |->
                          IF i = 0 THEN [tag |-> "en-note", attrib |-> {}]
                          ELSE lab[i]], 0, <<>>)

\* ------------------------------------------------------------- file names
\* A file name is the sequence of its character codes.
DotMd == <<46, 109, 100>>

\* The directory entries the generated input directories are made of:
\* "a.md", "B.md", "b.md", "\x01.md" and "n.txt".
Entries ==
    { <<97>> \o DotMd, <<66>> \o DotMd, <<98>> \o DotMd, <<1>> \o DotMd,
      <<110, 46, 116, 120, 116>> }

\* The pattern "*.md" of target_directory.glob.
MatchesMd(name) ==
    Len(name) >= Len(DotMd)
    /\ SubSeq(name, Len(name) - Len(DotMd) + 1, Len(name)) = DotMd

\* str.lower
lower(name) ==
    [i \in 1..Len(name) |->
        IF name[i] >= 65 /\ name[i] <= 90 THEN name[i] + 32 ELSE name[i]]

\* a <= b for Python strings: by code point, a prefix first.
RECURSIVE StrLeq(_, _)
StrLeq(a, b) ==
    IF a = <<>> THEN TRUE
    ELSE IF b = <<>> THEN FALSE
    ELSE IF Head(a) /= Head(b) THEN Head(a) < Head(b)
    ELSE StrLeq(Tail(a), Tail(b))

\* A variant of SortKey that sorts by the name as it is (case-sensitive).
SortKey_CaseSensitive(fn) == fn

\* The key of the sort in write_enex.
SortKey(fn) == lower(fn)

\* sorted(seq, key=SortKey): a stable sort, equal keys keep the order of seq.
RECURSIVE InsertSorted(_, _)
InsertSorted(sorted, fn) ==
    IF sorted = <<>> THEN <<fn>>
    ELSE IF StrLeq(SortKey(Head(sorted)), SortKey(fn))
         THEN <<Head(sorted)>> \o InsertSorted(Tail(sorted), fn)
         ELSE <<fn>> \o sorted

RECURSIVE SortFiles(_)
SortFiles(seq) ==
    IF seq = <<>> THEN <<>>
    ELSE InsertSorted(SortFiles(SubSeq(seq, 1, Len(seq) - 1)), seq[Len(seq)])

\* The orders in which glob can yield the elements of the set S.
RECURSIVE Orders(_)
Orders(S) ==
    IF S = {} THEN { <<>> }
    ELSE UNION { { <<x>> \o o : o \in Orders(S \ {x}) } : x \in S }

\* ------------------------------------------------------------ process_note
IsSpace(c) == c \in {9, 10, 11, 12, 13, 28, 29, 30, 31, 32}

\* str.strip
RECURSIVE strip(_)
strip(str) ==
    IF str = <<>> THEN <<>>
    ELSE IF IsSpace(Head(str)) THEN strip(Tail(str))
    ELSE IF IsSpace(str[Len(str)]) THEN strip(SubSeq(str, 1, Len(str) - 1))
    ELSE str

\* Path(file).stem of a name that ends in ".md".
Stem(file) == SubSeq(file, 1, Len(file) - Len(DotMd))

\* Assigning el.text raises ValueError unless the string is XML compatible
\* (no NULL bytes or control characters).
XmlCompatible(str) ==
    \A i \in 1..Len(str) : str[i] >= 32 \/ str[i] \in {9, 10, 13}

\* create_title(file): the title text, and the exception of the assignment.
create_title(file) ==
    LET title == strip(Stem(file))
    IN  [text |-> title,
         raised |-> IF XmlCompatible(title) THEN "none" ELSE "ValueError"]

\* A variant of create_tag that leaves the timestamp out.
create_tag_NoTimestamp(now) == [text |-> <<"md2enex", "-import">>]

\* create_tag(): the tag element, its text in parts; now is what
\* datetime.datetime.now() returns during the call, in whole seconds.
create_tag(now) == [text |-> <<"md2enex", "-import", ":", now>>]

\* ----------------------------------------------- the lines of the HTML text
\* Texts are sequences of character codes.  "<h1" is the prefix the loop of
\* create_note_content looks for.
H1Prefix == <<60, 104, 49>>

\* "<h1>T</h1>", "<p>x y</p>", "<h1>T<br />", "U</h1>", "<h2>T</h2>"
Heading == <<60, 104, 49, 62, 84, 60, 47, 104, 49, 62>>

Paragraph == <<60, 112, 62, 120, 32, 121, 60, 47, 112, 62>>

HeadingStart == <<60, 104, 49, 62, 84, 60, 98, 114, 32, 47, 62>>

HeadingEnd == <<85, 60, 47, 104, 49, 62>>

SubHeading == <<60, 104, 50, 62, 84, 60, 47, 104, 50, 62>>

\* The lines the generated HTML texts are made of: a heading alone, a heading
\* between blanks, a heading followed by a paragraph on the same line, the two
\* lines of a heading with a line break in it, a paragraph between blanks, a
\* second-level heading, an empty line.
LineSamples ==
    { Heading,
      <<32, 32>> \o Heading \o <<9>>,
      Heading \o Paragraph,
      HeadingStart,
      HeadingEnd,
      <<32>> \o Paragraph \o <<32>>,
      SubHeading,
      <<>> }

\* The characters str.splitlines breaks a text at (besides "\r\n").
IsLineBreak(c) == c \in {10, 11, 12, 13, 28, 29, 30, 133}

\* str.splitlines: the lines of text without their line breaks; cur is the
\* line being read.  A text that ends with a line break has no empty last
\* line.
RECURSIVE SplitFrom(_, _)
SplitFrom(text, cur) ==
    IF text = <<>> THEN (IF cur = <<>> THEN <<>> ELSE <<cur>>)
    ELSE IF Head(text) = 13 /\ Len(text) >= 2 /\ text[2] = 10
         THEN <<cur>> \o SplitFrom(Tail(Tail(text)), <<>>)
    ELSE IF IsLineBreak(Head(text)) THEN <<cur>> \o SplitFrom(Tail(text), <<>>)
    ELSE SplitFrom(Tail(text), Append(cur, Head(text)))

splitlines(text) == SplitFrom(text, <<>>)

\* str.startswith
startswith(str, prefix) == IsPrefix(prefix, str)

\* A Markdown file as the converter sees it: conv is the outcome of
\* pypandoc.convert_file ("ok", or RuntimeError when pandoc exits with an
\* error), wellformed whether etree.XML accepts the joined lines, tree the
\* parsed <en-note>.
EmptyNote == Element(<<>>, "en-note", {}, <<>>, <<>>, <<>>)

DocOfTree(t) == [conv |-> "ok", wellformed |-> TRUE, tree |-> t]

\* Lines 331-335 of create_note_content, v being what validate_note_xml gave.
ContentElement(res, v) ==
    IF v.raised /= "none"
    THEN [raised |-> v.raised, content |-> EmptyNote, resources |-> <<>>,
          cwd |-> v.cwd]
    ELSE [raised |-> "none", content |-> res.tree, resources |-> res.resources,
          cwd |-> v.cwd]

\* Lines 318-335 of create_note_content, res being what add_resources gave:
\* the tree is serialised and validated, content and resources are returned.
ValidatedContent(res, cwd) ==
    IF res.raised /= "none"
    THEN [raised |-> res.raised, content |-> EmptyNote, resources |-> <<>>,
          cwd |-> cwd]
    ELSE ContentElement(res, validate_note_xml(res.tree, cwd))

\* create_note_content(file) called with the working directory cwd: the
\* exception it ends with ("none" when it returns), the content and the
\* resources it returns, the working directory it leaves.
create_note_content(doc, cwd) ==
    IF doc.conv /= "ok"
    THEN [raised |-> doc.conv, content |-> EmptyNote, resources |-> <<>>,
          cwd |-> cwd]
    ELSE IF ~doc.wellformed
    THEN [raised |-> "XMLSyntaxError", content |-> EmptyNote, resources |-> <<>>,
          cwd |-> cwd]
    ELSE ValidatedContent(add_resources(strip_note_el(doc.tree)), cwd)

\* The note element process_note builds from the title and the content; now is
\* the reading of the clock when create_tag is called.
NoteElement(file, title, c, now, cwd) ==
    [raised |-> IF title.raised /= "none" THEN title.raised ELSE c.raised,
     cwd |-> IF title.raised /= "none" THEN cwd ELSE c.cwd,
     note |-> [title |-> title.text, content |-> c.content,
               created |-> <<"created", file>>, updated |-> <<"updated", file>>,
               tags |-> <<create_tag(now)>>, resources |-> c.resources]]

\* process_note(file) called with the working directory cwd: the exception it
\* ends with, the note element, the working directory it leaves.
process_note(file, doc, now, cwd) ==
    NoteElement(file, create_title(file), create_note_content(doc, cwd), now, cwd)

\* except (etree.LxmlError, ValueError): XMLSyntaxError is an LxmlError,
\* UnicodeDecodeError a ValueError.
Recoverable ==
    { "LxmlError", "XMLSyntaxError", "LxmlSyntaxError", "ParseError", "ValueError",
      "UnicodeDecodeError" }

\* The documents of the generated input directories.
DocKinds ==
    { DocOfTree(Element(<<>>, "en-note", {}, <<"x">>,
          << Element(<<1>>, "p", {<<"class", "c">>}, <<"y">>,
              << Element(<<1, 1>>, "img", {<<"src", "pic%201.png">>}, <<>>, <<>>,
                         <<>>) >>, <<>>) >>, <<>>)),
      DocOfTree(Element(<<>>, "en-note", {}, <<>>,
          << Element(<<1>>, "section", {}, <<"y">>, <<>>, <<>>) >>, <<>>)),
      DocOfTree(Element(<<>>, "en-note", {}, <<>>,
          << Element(<<1>>, "img", {<<"src", "sub">>}, <<>>, <<>>, <<>>) >>, <<>>)),
      [conv |-> "ok", wellformed |-> FALSE, tree |-> EmptyNote],
      [conv |-> "RuntimeError", wellformed |-> FALSE, tree |-> EmptyNote] }

\* ------------------------------------------------------------------ state
VARIABLES
    dir,          \* the names of the entries of target_directory
    docs,         \* the Markdown document in each *.md entry
    files,        \* write_enex: the sorted list of input files
    idx,          \* write_enex: the position of the loop in files
    root,         \* write_enex: the en-export element and its note children
    count,        \* write_enex: count
    error_list,   \* write_enex: error_list
    output_file,  \* the file at output_file: whether written, and its notes
    stderr,       \* the messages typer.secho has written
    exit_code,    \* the process exit status, -1 while the process runs
    uncaught,     \* the exception that left write_enex, "none" if none did
    pc,           \* write_enex: "start", "loop", "written", "exit", "crashed"
    clock,        \* the system clock, in seconds after the start of the run
    cwd,          \* the working directory of the process
    parsed,       \* create_note_content: the tree etree.XML returned
    tree,         \* create_note_content: en_note_el
    resources,    \* create_note_content: resources
    raised,       \* create_note_content: the exception raised, "none" if none
    npc,          \* create_note_content: "parsed", "stripped", "extracted",
                  \* "validated", "failed"; "idle" under Spec
    html_text,    \* create_note_content: the text pypandoc.convert_file returned
    index,        \* create_note_content: the number of lines the loop has read
    content_text, \* create_note_content: content_text
    lpc           \* create_note_content: "loop" while the loop over the lines
                  \* runs, "idle" under Spec and SpecNote

runVars ==
    <<dir, docs, files, idx, root, count, error_list, output_file, stderr,
      exit_code, uncaught, pc>>

noteVars == <<parsed, tree, resources, raised, npc>>

lineVars == <<html_text, index, content_text, lpc>>

envVars == <<clock, cwd>>

vars == <<runVars, noteVars, lineVars, envVars>>

\* --------------------------------------------------------------- write_enex
NoRoot == [created |-> FALSE, notes |-> <<>>]

\* create_en_export(): the en-export element, without children.
create_en_export == [created |-> TRUE, notes |-> <<>>]

NoOutput == [written |-> FALSE, notes |-> <<>>]

MdFiles(d) == { n \in d : MatchesMd(n) }

InitRun ==
    /\ dir \in { d \in SUBSET Entries : Cardinality(d) <= MaxFiles }
    /\ docs \in [MdFiles(dir) -> DocKinds]
    /\ files = <<>>
    /\ idx = 0
    /\ root = NoRoot
    /\ count = 0
    /\ error_list = <<>>
    /\ output_file = NoOutput
    /\ stderr = <<>>
    /\ exit_code = -1
    /\ uncaught = "none"
    /\ pc = "start"

IdleNote ==
    /\ parsed = EmptyNote
    /\ tree = EmptyNote
    /\ resources = <<>>
    /\ raised = "none"
    /\ npc = "idle"

IdleLines ==
    /\ html_text = <<>>
    /\ index = 0
    /\ content_text = <<>>
    /\ lpc = "idle"

InitEnv ==
    /\ clock = 0
    /\ cwd \in Dirs

Init == InitRun /\ IdleNote /\ IdleLines /\ InitEnv

\* A variant of NoMarkdownFiles without the early exit: the export root is
\* created and the (empty) loop is entered.
NoMarkdownFiles_NoExit ==
    /\ pc = "start"
    /\ MdFiles(dir) = {}
    /\ files' = SortFiles(<<>>)
    /\ root' = create_en_export
    /\ idx' = 1
    /\ pc' = "loop"
    /\ UNCHANGED <<dir, docs, count, error_list, output_file, stderr, exit_code,
                   uncaught>>
    /\ UNCHANGED <<noteVars, lineVars, envVars>>

\* Lines 376-380: no file matches *.md.
NoMarkdownFiles ==
    /\ pc = "start"
    /\ MdFiles(dir) = {}
    /\ files' = SortFiles(<<>>)
    /\ stderr' = Append(stderr, [msg |-> "No markdown files found", files |-> <<>>,
                                 count |-> 0])
    /\ exit_code' = 1
    /\ pc' = "exit"
    /\ UNCHANGED <<dir, docs, idx, root, count, error_list, output_file, uncaught>>
    /\ UNCHANGED <<noteVars, lineVars, envVars>>

\* Lines 376-386: the files glob yields, in any order, are sorted; the export
\* root is created and the loop starts.
StartLoop ==
    /\ pc = "start"
    /\ MdFiles(dir) /= {}
    /\ \E order \in Orders(MdFiles(dir)) : files' = SortFiles(order)
    /\ root' = create_en_export
    /\ count' = 0
    /\ error_list' = <<>>
    /\ idx' = 1
    /\ pc' = "loop"
    /\ UNCHANGED <<dir, docs, output_file, stderr, exit_code, uncaught>>
    /\ UNCHANGED <<noteVars, lineVars, envVars>>

\* A variant of ProcessFile that leaves the loop at the first file that fails
\* (a break in the except clause).
ProcessFile_StopsOnError ==
    /\ pc = "loop"
    /\ idx <= Len(files)
    /\ \E filename \in {files[idx]} :
       \E now \in clock..MaxClock :
       \E r \in {process_note(filename, docs[filename], now, cwd)} :
           /\ clock' = now
           /\ cwd' = r.cwd
           /\ IF r.raised = "none"
              THEN /\ root' = [root EXCEPT !.notes = Append(@, r.note)]
                   /\ count' = count + 1
                   /\ idx' = idx + 1
                   /\ UNCHANGED <<error_list, exit_code, uncaught, pc>>
              ELSE IF r.raised \in Recoverable
              THEN /\ error_list' = Append(error_list, filename)
                   /\ idx' = Len(files) + 1
                   /\ UNCHANGED <<root, count, exit_code, uncaught, pc>>
              ELSE /\ uncaught' = r.raised
                   /\ exit_code' = 1
                   /\ pc' = "crashed"
                   /\ UNCHANGED <<root, count, error_list, idx>>
    /\ UNCHANGED <<dir, docs, files, output_file, stderr>>
    /\ UNCHANGED <<noteVars, lineVars>>

\* Lines 387-396: one pass of the loop.  process_note returns and the note is
\* appended; or it raises an LxmlError or a ValueError and the file is
\* recorded; or it raises an exception the except clause does not name, which
\* leaves write_enex and ends the process with a traceback.
ProcessFile ==
    /\ pc = "loop"
    /\ idx <= Len(files)
    /\ \E filename \in {files[idx]} :
       \E now \in clock..MaxClock :
       \E r \in {process_note(filename, docs[filename], now, cwd)} :
           /\ clock' = now
           /\ cwd' = r.cwd
           /\ IF r.raised = "none"
              THEN /\ root' = [root EXCEPT !.notes = Append(@, r.note)]
                   /\ count' = count + 1
                   /\ idx' = idx + 1
                   /\ UNCHANGED <<error_list, exit_code, uncaught, pc>>
              ELSE IF r.raised \in Recoverable
              THEN /\ error_list' = Append(error_list, filename)
                   /\ idx' = idx + 1
                   /\ UNCHANGED <<root, count, exit_code, uncaught, pc>>
              ELSE /\ uncaught' = r.raised
                   /\ exit_code' = 1
                   /\ pc' = "crashed"
                   /\ UNCHANGED <<root, count, error_list, idx>>
    /\ UNCHANGED <<dir, docs, files, output_file, stderr>>
    /\ UNCHANGED <<noteVars, lineVars>>

\* Lines 398-406: tree.write(output_file, ...) after the loop.
WriteOutput ==
    /\ pc = "loop"
    /\ idx > Len(files)
    /\ output_file' = [written |-> TRUE, notes |-> root.notes]
    /\ pc' = "written"
    /\ UNCHANGED <<dir, docs, files, idx, root, count, error_list, stderr,
                   exit_code, uncaught>>
    /\ UNCHANGED <<noteVars, lineVars, envVars>>

\* A variant of Report that looks at count before error_list: skipped files
\* are named but the run ends as a success whenever a note was written.
Report_SuccessFirst ==
    /\ pc = "written"
    /\ IF count > 0
       THEN /\ stderr' = Append(stderr, [msg |-> "Some files were skipped",
                                         files |-> error_list, count |-> 0])
            /\ exit_code' = 0
       ELSE /\ stderr' = Append(stderr, [msg |-> "Error - no files written.",
                                         files |-> <<>>, count |-> 0])
            /\ exit_code' = 2
    /\ pc' = "exit"
    /\ UNCHANGED <<dir, docs, files, idx, root, count, error_list, output_file,
                   uncaught>>
    /\ UNCHANGED <<noteVars, lineVars, envVars>>

\* Lines 408-420: the messages and the exit status.
Report ==
    /\ pc = "written"
    /\ IF Len(error_list) > 0
       THEN /\ stderr' = Append(stderr, [msg |-> "Some files were skipped",
                                         files |-> error_list, count |-> 0])
            /\ exit_code' = 1
       ELSE IF count > 0
       THEN /\ stderr' = Append(stderr, [msg |-> "Successfully wrote",
                                         files |-> <<>>, count |-> count])
            /\ exit_code' = 0
       ELSE /\ stderr' = Append(stderr, [msg |-> "Error - no files written.",
                                         files |-> <<>>, count |-> 0])
            /\ exit_code' = 2
    /\ pc' = "exit"
    /\ UNCHANGED <<dir, docs, files, idx, root, count, error_list, output_file,
                   uncaught>>
    /\ UNCHANGED <<noteVars, lineVars, envVars>>

Next ==
    \/ NoMarkdownFiles
    \/ StartLoop
    \/ ProcessFile
    \/ WriteOutput
    \/ Report

Spec == Init /\ [][Next]_vars

\* ------------------------------------------------------ create_note_content
IdleRun ==
    /\ dir = {}
    /\ docs = <<>>
    /\ files = <<>>
    /\ idx = 0
    /\ root = NoRoot
    /\ count = 0
    /\ error_list = <<>>
    /\ output_file = NoOutput
    /\ stderr = <<>>
    /\ exit_code = -1
    /\ uncaught = "none"
    /\ pc = "idle"

\* Line 312: etree.XML has returned the tree of a document.
InitNote ==
    /\ IdleRun
    /\ IdleLines
    /\ InitEnv
    /\ \E n \in 0..MaxNodes :
           \E par \in [1..n -> 0..(n - 1)] :
               /\ IsShape(par)
               /\ \E lab \in [1..n -> Labels] : parsed = BuildDocument(par, lab)
    /\ tree = parsed
    /\ resources = <<>>
    /\ raised = "none"
    /\ npc = "parsed"

\* Line 313: strip_note_el(en_note_el).
Strip ==
    /\ npc = "parsed"
    /\ tree' = strip_note_el(tree)
    /\ npc' = "stripped"
    /\ UNCHANGED <<parsed, resources, raised>>
    /\ UNCHANGED <<runVars, lineVars, envVars>>

\* Line 316: resources = add_resources(en_note_el, os.path.dirname(file)).
AddResources ==
    /\ npc = "stripped"
    /\ LET r == add_resources(tree)
       IN  /\ tree' = r.tree
           /\ resources' = r.resources
           /\ raised' = r.raised
           /\ npc' = IF r.raised = "none" THEN "extracted" ELSE "failed"
    /\ UNCHANGED parsed
    /\ UNCHANGED <<runVars, lineVars, envVars>>

\* Lines 318-329: the tree is serialised and validate_note_xml is called.
Validate ==
    /\ npc = "extracted"
    /\ \E v \in {validate_note_xml(tree, cwd)} :
           /\ raised' = v.raised
           /\ cwd' = v.cwd
           /\ npc' = IF v.raised = "none" THEN "validated" ELSE "failed"
    /\ UNCHANGED <<parsed, tree, resources, clock>>
    /\ UNCHANGED <<runVars, lineVars>>

NextNote ==
    \/ Strip
    \/ AddResources
    \/ Validate

SpecNote == InitNote /\ [][NextNote]_vars

\* ------------------------------------- create_note_content: the line loop
\* Line 299: pypandoc.convert_file has returned an HTML text, every line of it
\* ended by a newline.
InitLines ==
    /\ IdleRun
    /\ IdleNote
    /\ InitEnv
    /\ \E n \in 0..MaxLines :
           \E ls \in [1..n -> LineSamples] :
               html_text = ConcatAll([i \in 1..n |-> ls[i] \o <<10>>])
    /\ index = 0
    /\ content_text = <<>>
    /\ lpc = "loop"

\* Lines 305-310: one pass of the loop over enumerate(html_text.splitlines()).
LineStep ==
    /\ lpc = "loop"
    /\ \E lines \in {splitlines(html_text)} :
           /\ index < Len(lines)
           /\ \E line_trimmed \in {strip(lines[index + 1])} :
                  content_text' =
                      IF index = 0 /\ startswith(line_trimmed, H1Prefix)
                      THEN content_text
                      ELSE content_text \o line_trimmed
    /\ index' = index + 1
    /\ UNCHANGED <<html_text, lpc>>
    /\ UNCHANGED <<runVars, noteVars, envVars>>

NextLines == LineStep

SpecLines == InitLines /\ [][NextLines]_vars

\* ------------------------------------------------- claims about write_enex
\* What process_note does for the input file f: "none" when it returns a note,
\* the exception otherwise.
Outcome(f) == process_note(f, docs[f], 0, cwd).raised

\* An lxml error or a ValueError, as the claims name them.
IsLxmlOrValueError(exc) == exc \in {"XMLSyntaxError", "ValueError"}

\* The files the loop has been through.
Visited == SubSeq(files, 1, idx - 1)

Succeeded(f) == Outcome(f) = "none"

Failed(f) == IsLxmlOrValueError(Outcome(f))

\* A note without its tag entries (the part that does not depend on the clock).
Body(note) == [note EXCEPT !.tags = <<>>]

Bodies(notes) == [i \in 1..Len(notes) |-> Body(notes[i])]

\* The notes of the files of fs that convert, in the order of fs, without
\* their tag entries.
NotesOf(fs) ==
    LET ok == SelectSeq(fs, Succeeded)
    IN  [i \in 1..Len(ok) |-> Body(process_note(ok[i], docs[ok[i]], 0, cwd).note)]

LoopEntered == pc \in {"loop", "written", "crashed"} \/ (pc = "exit" /\ files /= <<>>)

\* C1: every file whose process_note raises an lxml error or a ValueError is
\* appended to error_list, and the loop goes on to the files after it: the
\* error list is exactly the failed files among those visited, every file the
\* loop has passed was either counted or recorded, the loop is left early only
\* by an exception that is neither, and the output is written only after the
\* last file.
C1_RecoverableErrorNeverStopsLoop ==
    LoopEntered =>
        /\ error_list = SelectSeq(Visited, Failed)
        /\ count + Len(error_list) = idx - 1
        /\ pc = "crashed" => idx <= Len(files) /\ ~Failed(files[idx])
                                /\ ~Succeeded(files[idx])
        /\ pc \in {"written", "exit"} => idx = Len(files) + 1

\* A ValueError file and an lxml-error file were recorded and the file after
\* them was converted.
C1_Witness ==
    /\ pc = "written"
    /\ Len(files) = 3
    /\ Outcome(files[1]) = "ValueError"
    /\ Outcome(files[2]) = "XMLSyntaxError"
    /\ Succeeded(files[3])
    /\ error_list = <<files[1], files[2]>>
    /\ count = 1

\* C2: the input files are all the *.md entries in case-insensitive order of
\* their names, the notes of the export root (and of the written export) are
\* the notes of the converted files in that order, and when all N files
\* convert the written export holds N notes.
C2_NotesInSortedOrder ==
    LoopEntered =>
        /\ Len(files) = Cardinality(MdFiles(dir))
        /\ { files[i] : i \in 1..Len(files) } = MdFiles(dir)
        /\ \A i \in 1..Len(files) : \A j \in i..Len(files) :
               StrLeq(lower(files[i]), lower(files[j]))
        /\ Bodies(root.notes) = NotesOf(Visited)
        /\ output_file.written =>
               /\ Bodies(output_file.notes) = NotesOf(files)
               /\ (\A f \in MdFiles(dir) : Succeeded(f)) =>
                      Len(output_file.notes) = Cardinality(MdFiles(dir))

\* Three files that all convert, "a.md" before "B.md" and "b.md".
C2_Witness ==
    /\ pc = "exit"
    /\ exit_code = 0
    /\ Len(files) = 3
    /\ files[1] = <<97>> \o DotMd
    /\ Len(output_file.notes) = 3
    /\ output_file.notes[1].title = <<97>>

\* Every input file either converts or fails with an lxml error or a
\* ValueError, and there is at least one of each.
PartialFailure ==
    /\ \A f \in MdFiles(dir) : Succeeded(f) \/ Failed(f)
    /\ \E f \in MdFiles(dir) : Succeeded(f)
    /\ \E f \in MdFiles(dir) : Failed(f)

\* C3: on a partial failure the run ends with exit status 1, the output file
\* holds exactly the notes of the files that converted, the warning names every
\* failed path, and the output file is written before any exit status is set.
C3_PartialFailureWritesAndExitsOne ==
    PartialFailure =>
        /\ pc /= "crashed"
        /\ exit_code /= -1 => output_file.written
        /\ pc = "exit" =>
               /\ exit_code = 1
               /\ output_file.written
               /\ Bodies(output_file.notes) = NotesOf(files)
               /\ Len(output_file.notes) = Len(SelectSeq(files, Succeeded))
               /\ stderr = << [msg |-> "Some files were skipped",
                               files |-> SelectSeq(files, Failed), count |-> 0] >>

\* One of three files failed, two notes were written, the exit status is 1.
C3_Witness ==
    /\ PartialFailure
    /\ pc = "exit"
    /\ Len(files) = 3
    /\ Len(error_list) = 1
    /\ Len(output_file.notes) = 2
    /\ exit_code = 1

\* C4: with no *.md entry in the directory the run ends with the fatal message
\* and exit status 1, and the export root was not created, no file was
\* processed and no output file was written.
C4_NoMarkdownFilesIsFatal ==
    (MdFiles(dir) = {} /\ pc /= "start") =>
        /\ pc = "exit"
        /\ exit_code = 1
        /\ stderr = << [msg |-> "No markdown files found", files |-> <<>>,
                        count |-> 0] >>
        /\ ~root.created
        /\ root.notes = <<>>
        /\ idx = 0
        /\ count = 0
        /\ error_list = <<>>
        /\ ~output_file.written

\* A directory that holds only "n.txt" has ended the run.
C4_Witness ==
    /\ dir /= {}
    /\ MdFiles(dir) = {}
    /\ pc = "exit"
    /\ exit_code = 1

\* C5: when input files are present and no note was produced, the run ends
\* with exit status 2.
C5_ZeroNotesExitsTwo ==
    (pc = "exit" /\ files /= <<>> /\ count = 0) => exit_code = 2

\* C6: no exception raised while processing a file leaves write_enex: every
\* file that does not convert, the external conversion failing included, is
\* recorded in error_list and the output is written.
C6_NoExceptionAbortsRun ==
    /\ uncaught = "none"
    /\ pc /= "crashed"
    /\ LoopEntered => error_list = SelectSeq(Visited, LAMBDA f : ~Succeeded(f))

\* ---------------------------------------- claims about create_note_content
\* The tree add_resources is called on.
Sanitized == strip_note_el(parsed)

SrcKind(el) == Disk(unquote(Attr(el, "src"))).kind

\* The src of el resolves to an existing file.
HasFile(el) == HasAttr(el, "src") /\ SrcKind(el) = "file"

\* el has no src, or its src resolves to nothing on disk.
HasNoFile(el) == ~HasAttr(el, "src") \/ SrcKind(el) = "missing"

FileDigest(el) == md5(Disk(unquote(Attr(el, "src"))).bytes)

\* The media elements of the tree san, as paths in document order: all, those
\* with an existing file, those without src or with a missing file.
MediaPaths(san) == PathsWithTag(san, MEDIA_TAGS)

WithFile(san) == SelectSeq(MediaPaths(san), LAMBDA p : HasFile(NodeAt(san, p)))

WithoutFile(san) == SelectSeq(MediaPaths(san), LAMBDA p : HasNoFile(NodeAt(san, p)))

\* The digests of the files of the elements at the paths wf.
Digests(san, wf) == [i \in 1..Len(wf) |-> FileDigest(NodeAt(san, wf[i]))]

\* The element at p lies inside one of the elements at the paths wf.
Inside(wf, p) == \E i \in 1..Len(wf) : IsProperPrefix(wf[i], p)

\* The hashes of the en-media elements reachable in the tree t, in document
\* order.
EnMediaHashes(t) ==
    LET found == SelectSeq(Descendants(t), LAMBDA d : d.tag = "en-media")
    IN  [i \in 1..Len(found) |-> Attr(found[i], "hash")]

\* How often x occurs in the sequence seq.
Occurrences(seq, x) == Cardinality({ i \in 1..Len(seq) : seq[i] = x })

\* The digest of the bytes a resource carries.
ResourceDigest(r) == md5(b64decode(r.data))

\* One resource per media element with an existing file, in document order,
\* each with the digest of that file.
OneResourcePerFile(dg) ==
    /\ Len(resources) = Len(dg)
    /\ \A i \in 1..Len(dg) : ResourceDigest(resources[i]) = dg[i]

\* C7 as stated: when add_resources has returned, every media element with an
\* existing file has its one resource with the digest of the file, and the
\* content tree holds exactly one en-media element with that hash.
C7_ExactlyOneReferencePerHash ==
    npc = "extracted" =>
        LET san == Sanitized
            dg == Digests(san, WithFile(san))
            hashes == EnMediaHashes(tree)
        IN  /\ OneResourcePerFile(dg)
            /\ \A i \in 1..Len(dg) : Occurrences(hashes, dg[i]) = 1

\* C7 as amended: when add_resources has returned, every media element with an
\* existing file has its one resource with the digest of the file, and the
\* content tree holds, for each hash, one en-media element for each such media
\* element with that digest that is not inside another such media element.
C7_OneReferencePerConvertedElement ==
    npc = "extracted" =>
        LET san == Sanitized
            wf == WithFile(san)
            dg == Digests(san, wf)
            hashes == EnMediaHashes(tree)
        IN  /\ OneResourcePerFile(dg)
            /\ \A i \in 1..Len(dg) :
                   Occurrences(hashes, dg[i]) =
                       Cardinality({ j \in 1..Len(dg) :
                                       dg[j] = dg[i] /\ ~Inside(wf, wf[j]) })

\* Two media elements with the same bytes were converted: two resources and
\* two en-media elements with one hash.
C7_Witness ==
    /\ npc = "extracted"
    /\ Len(resources) = 2
    /\ ResourceDigest(resources[1]) = ResourceDigest(resources[2])
    /\ Occurrences(EnMediaHashes(tree), ResourceDigest(resources[1])) = 2

\* C8: when add_resources has returned, the resources list has as many entries
\* as the content tree has en-media elements, and the i-th resource carries the
\* bytes whose digest is the hash of the i-th en-media in document order.
C8_ResourcesParallelReferences ==
    npc = "extracted" =>
        LET hashes == EnMediaHashes(tree)
        IN  /\ Len(resources) = Len(hashes)
            /\ \A i \in 1..Len(resources) :
                   i <= Len(hashes) => ResourceDigest(resources[i]) = hashes[i]

\* One of the elements ds has identity id, tag img and the attributes attrib.
KeptAsImg(ds, id, attrib) ==
    \E i \in 1..Len(ds) :
        ds[i].id = id /\ ds[i].tag = "img" /\ ds[i].attrib = attrib

\* add_resources raises only for a media element whose src is no regular file.
RaisesOnlyOnDirectory ==
    (npc = "failed" /\ raised /= "XMLSyntaxError") =>
        LET san == Sanitized
            mp == MediaPaths(san)
        IN  \E i \in 1..Len(mp) :
                /\ HasAttr(NodeAt(san, mp[i]), "src")
                /\ SrcKind(NodeAt(san, mp[i])) = "dir"

IsTagEvent(e) == e[1] \in {"start", "end"}

\* The serialised form strip_note_el must leave: the start and end tags of the
\* disallowed elements gone, the disallowed attributes gone from the start
\* tags left, everything else where it was.
SanitizedEvents(t) ==
    LET kept == SelectSeq(Events(t),
                    LAMBDA e : ~(IsTagEvent(e) /\ e[3] \in INVALID_TAGS))
    IN  [i \in 1..Len(kept) |->
            IF kept[i][1] = "start"
            THEN <<"start", kept[i][2], kept[i][3],
                   { a \in kept[i][4] : a[1] \notin INVALID_ATTRIBUTES }>>
            ELSE kept[i]]

\* C10: after strip_note_el the tree reads as before except that the tags of
\* the disallowed elements are gone (children and text in place and in order,
\* siblings in order), and no element has a disallowed tag or attribute.
C10_StripKeepsChildrenInOrder ==
    npc = "stripped" =>
        LET els == Elements(tree)
        IN  /\ Events(tree) = SanitizedEvents(parsed)
            /\ \A i \in 1..Len(els) :
                   /\ els[i].tag \notin INVALID_TAGS
                   /\ \A a \in els[i].attrib : a[1] \notin INVALID_ATTRIBUTES

\* A disallowed element with a child, followed by a sibling, was stripped: its
\* child and the sibling are now the children of en-note.
C10_Witness ==
    /\ npc = "stripped"
    /\ Len(parsed.kids) = 2
    /\ parsed.kids[1].tag = "script"
    /\ Len(parsed.kids[1].kids) = 1
    /\ parsed.kids[1].kids[1].tag = "p"
    /\ Len(tree.kids) = 2
    /\ tree.kids[1].id = <<1, 1>>
    /\ tree.kids[2].id = <<2>>


\* C11: strip_note_el is idempotent: applied to the tree it has sanitized, it
\* returns that tree (same elements, attributes, text and order), and so does
\* applying it twice to the tree as parsed.
C11_StripIsIdempotent ==
    /\ npc = "stripped" =>
           /\ strip_note_el(tree) = tree
           /\ Events(strip_note_el(tree)) = Events(tree)
    /\ npc = "parsed" =>
           strip_note_el(strip_note_el(tree)) = strip_note_el(tree)

\* A tree in which a disallowed element holds another disallowed element, with
\* a disallowed attribute on the element below them, has been sanitized, and
\* sanitizing it again changes nothing.
C11_Witness ==
    /\ npc = "stripped"
    /\ Len(parsed.kids) = 1
    /\ parsed.kids[1].tag = "script"
    /\ Len(parsed.kids[1].kids) = 1
    /\ parsed.kids[1].kids[1].tag = "script"
    /\ Len(parsed.kids[1].kids[1].kids) = 1
    /\ HasAttr(parsed.kids[1].kids[1].kids[1], "class")
    /\ tree /= parsed
    /\ Len(tree.kids) = 1
    /\ tree.kids[1].id = <<1, 1, 1>>
    /\ strip_note_el(tree) = tree


\* ------------------------------------------------- claims about the tags
FixedMarker == <<"md2enex", "-import">>

StampedMarker(t) == <<"md2enex", "-import", ":", t>>

OccursAt(str, sub, i) ==
    i + Len(sub) - 1 <= Len(str) /\ SubSeq(str, i, i + Len(sub) - 1) = sub

\* "</h1>"
H1End == <<60, 47, 104, 49, 62>>

\* The line is a top-level heading and nothing else: it starts with "<h1" and
\* the end tag of the heading is the end of the line.
IsSoleHeading(line) ==
    /\ startswith(line, H1Prefix)
    /\ \A i \in 1..Len(line) :
           OccursAt(line, H1End, i) <=> i = Len(line) - Len(H1End) + 1

\* The content the claim describes for the lines ls: every line trimmed, in
\* order, nothing between them, the first one left out when it is solely a
\* top-level heading.
ContentOf(ls) ==
    ConcatAll([i \in 1..Len(ls) |->
        IF i = 1 /\ IsSoleHeading(strip(ls[1])) THEN <<>> ELSE strip(ls[i])])

\* C13: after every pass of the loop, content_text is the concatenation of the
\* trimmed lines read so far, in order and with no separator, without the first
\* line if and only if that line is solely a top-level heading.
C13_FirstLineDroppedOnlyIfSoleHeading ==
    lpc = "loop" =>
        content_text = ContentOf(SubSeq(splitlines(html_text), 1, index))


\* ------------------------------------- claims about the end of write_enex
\* C14: when the run has ended after the loop and at least one note was
\* produced, the messages hold the summary "Successfully wrote <count> markdown
\* files", also when other files were skipped.
C14_SuccessCountReported ==
    (pc = "exit" /\ count > 0) =>
        \E i \in 1..Len(stderr) :
            stderr[i].msg = "Successfully wrote" /\ stderr[i].count = count

\* The file f has its note in the export root.
HasNote(f) ==
    \E i \in 1..Len(root.notes) : root.notes[i].created = <<"created", f>>

\* The file f is in the error list.
IsRecorded(f) == \E i \in 1..Len(error_list) : error_list[i] = f

\* C15: in every state of the loop count + len(error_list) is the number of
\* files processed so far, count is the number of notes in the export root and
\* no file has both a note and an entry in the error list; and when the run is
\* over every input file has exactly one of the two: its note in the export
\* root, or its path in the error list.
C15_EachFileExactlyOneOutcome ==
    LoopEntered =>
        /\ count + Len(error_list) = idx - 1
        /\ count = Len(root.notes)
        /\ \A i \in 1..Len(files) : ~(HasNote(files[i]) /\ IsRecorded(files[i]))
        /\ \A i \in 1..Len(error_list) : \A j \in 1..Len(error_list) :
               error_list[i] = error_list[j] => i = j
        /\ pc \in {"exit", "crashed"} =>
               \A i \in 1..Len(files) : HasNote(files[i]) \/ IsRecorded(files[i])


\* ------------------------------------- claims about the end of add_resources
\* The start and end tags of the tree t in document order, each with the
\* identity and the tag of its element.
TagsOf(t) ==
    LET ev == SelectSeq(Events(t), IsTagEvent)
    IN  [i \in 1..Len(ev) |-> <<ev[i][1], ev[i][2], ev[i][3]>>]

\* The identities of the elements at the paths ps of the tree san.
IdsAt(san, ps) == { NodeAt(san, ps[i]).id : i \in 1..Len(ps) }

\* The tags add_resources must leave of the tree san, conv being the identities
\* of the media elements it converts: the tags of the figures are gone (what
\* was between them stays where it was), a converted element and all it held is
\* one en-media element, video, audio and embed read img.
TagsAfterResources(san, conv) ==
    LET kept == SelectSeq(TagsOf(san),
                    LAMBDA e : /\ e[3] /= "figure"
                               /\ \A w \in conv : ~IsProperPrefix(w, e[2]))
    IN  [i \in 1..Len(kept) |->
            IF kept[i][2] \in conv
            THEN <<kept[i][1], <<0>> \o kept[i][2], "en-media">>
            ELSE <<kept[i][1], kept[i][2],
                   IF kept[i][3] \in RENAME_TAGS THEN "img" ELSE kept[i][3]>>]

\* C16: when add_resources has returned, the content tree holds no figure,
\* video, audio or embed element; the elements that were inside a figure (also
\* a figure inside a figure) stand in its parent at the figure's position, in
\* their order, and the video, audio and embed elements left read img.
C16_FiguresSplicedMediaRenamed ==
    npc = "extracted" =>
        LET san == Sanitized
            els == Elements(tree)
        IN  /\ \A i \in 1..Len(els) :
                   els[i].tag \notin {"figure", "video", "audio", "embed"}
            /\ TagsOf(tree) = TagsAfterResources(san, IdsAt(san, WithFile(san)))

\* A figure that holds a figure with an audio element (file missing) in it: the
\* audio element, now img, is the one child of en-note.
C16_Witness ==
    /\ npc = "extracted"
    /\ Len(parsed.kids) = 1
    /\ parsed.kids[1].tag = "figure"
    /\ Len(parsed.kids[1].kids) = 1
    /\ parsed.kids[1].kids[1].tag = "figure"
    /\ Len(parsed.kids[1].kids[1].kids) = 1
    /\ parsed.kids[1].kids[1].kids[1].tag = "audio"
    /\ Len(tree.kids) = 1
    /\ tree.kids[1].tag = "img"
    /\ tree.kids[1].id = <<1, 1, 1>>


\* ------------------------------------ claims about the working directory
\* The file f reaches validate_note_xml, which rejects its content.
FailsValidation(f) ==
    /\ docs[f].conv = "ok"
    /\ docs[f].wellformed
    /\ Outcome(f) = "XMLSyntaxError"

\* C17: no step of the run changes the working directory: processing a file,
\* whether validate_note_xml accepts its content or raises XMLSyntaxError,
\* leaves the directory that was current before, and so do the steps after it.
C17_WorkingDirectoryUnchanged == [][cwd' = cwd]_vars

\* Started outside the module's directory, the run has processed a file whose
\* content failed validation and then a file that converted, has written the
\* output, and the working directory is still the one it was started in.
C17_Witness ==
    /\ pc = "written"
    /\ Len(files) >= 2
    /\ FailsValidation(files[1])
    /\ Succeeded(files[2])
    /\ error_list = <<files[1]>>
    /\ cwd = "notes"

====
